---- MODULE Spec2Model ----
(***************************************************************************)
(* The HDRI catalog of loader.py: one SQLite table `hdri` with fixed       *)
(* columns and a variable number of BOOLEAN tag_* columns, the storage     *)
(* folder, and the handlers of HDRIPreviewLoader and HDRIInfoDialog that   *)
(* change them.  No handler closes its connection when a statement raises: *)
(* `locked` is the write lock such a connection keeps until the            *)
(* interpreter finalizes it.                                               *)
(*                                                                         *)
(* Text (names, labels, column names, paths) is a sequence of fragments:   *)
(* single characters for user text, whole literals for the literals of the *)
(* source ("tag_", "id", "preview.jpg"), so that concatenation, strip,     *)
(* replace and LIKE work on it as they do on the strings of the program.   *)
(***************************************************************************)
EXTENDS Integers, Sequences, FiniteSets, TLC

\* ------------------------------------------------------------------ bounds
MaxHash == 2        \* distinct fingerprints the selected files can have
MaxId == 2          \* ids the catalog hands out before ingest is cut off
MaxBatch == 2       \* files selected in one add_hdri dialog
MaxNameLen == 1     \* characters of a search text
MaxDate == 1        \* distinct readings of the clock
MaxDim == 2         \* rows and columns of a fingerprint
MaxSessions == 2    \* sessions (processes) that edit tags of one catalog at a time
MaxListed == 3      \* records of a catalog whose listing is sorted
MaxSortDate == 2    \* distinct upload dates of those records

\* compute_image_hash returns None when decoding or hashing fails.
None == -1

Hashes == 1..MaxHash
Dates == 1..MaxDate

\* Characters of search texts: a letter and LIKE's one-character wildcard,
\* which is also what safe_tag_column writes for a blank.
NameChars == {"a", "_"}

RECURSIVE SeqsUpTo(_, _)
SeqsUpTo(S, n) ==
  IF n = 0 THEN {<<>>}
  ELSE LET shorter == SeqsUpTo(S, n - 1)
       IN  shorter \cup {Append(s, c) : s \in {t \in shorter : Len(t) = n - 1}, c \in S}

\* What search_bar.text().strip() can be.
Texts == SeqsUpTo(NameChars, MaxNameLen)

\* The files the file dialog can return: base name (without extension) and
\* what compute_image_hash yields for the content.
FileNames == {<<"a">>}
Files == [name : FileNames, hash : Hashes \cup {None}]

\* What the user leaves in name_edit before OK: the name the dialog shows.
NewNames == FileNames

\* The labels typed into new_tag_edit.
TagLabels == { <<"a", " ", "b">>, <<"a", "_", "b">>, <<" ", "c", " ">>,
               <<" ">>, <<"a", "-", "b">> }

\* ------------------------------------------------------------ str methods
RECURSIVE lstrip(_)
lstrip(s) == IF s # <<>> /\ Head(s) = " " THEN lstrip(Tail(s)) ELSE s

RECURSIVE rstrip(_)
rstrip(s) ==
  IF s # <<>> /\ s[Len(s)] = " " THEN rstrip(SubSeq(s, 1, Len(s) - 1)) ELSE s

strip(s) == rstrip(lstrip(s))

replace(s, old, new) == [i \in 1..Len(s) |-> IF s[i] = old THEN new ELSE s[i]]

\* ---------------------------------------------------------------- the store
\* A table is what SQLite keeps for it: the columns as PRAGMA table_info
\* reports them (name, type, notnull, dflt_value, pk), the two properties of
\* the CREATE TABLE statement that table_info does not report (AUTOINCREMENT
\* on the key, UNIQUE columns), and the rows, each a function from the
\* column names to values.  A database is its tables and sqlite_sequence.

hdri == <<"hdri">>
idCol == <<"id">>
file_pathCol == <<"file_path">>
preview_pathCol == <<"preview_path">>
nameCol == <<"name">>
upload_dateCol == <<"upload_date">>
hashCol == <<"hash">>

ColInfo(n, t, nn, d, p) == [name |-> n, type |-> t, notnull |-> nn, dflt |-> d, pk |-> p]

ColNames(t) == {t.cols[i].name : i \in 1..Len(t.cols)}

\* The empty database file sqlite3.connect creates.
EmptyDb == [tables |-> [n \in {} |-> {}], sqlite_sequence |-> [n \in {} |-> 0]]

initialize_database(db) ==
  IF hdri \in DOMAIN db.tables THEN db
  ELSE [db EXCEPT !.tables = [n \in {hdri} |->
          [cols |-> << ColInfo(idCol, "INTEGER", FALSE, "None", TRUE),
                       ColInfo(file_pathCol, "TEXT", TRUE, "None", FALSE),
                       ColInfo(preview_pathCol, "TEXT", TRUE, "None", FALSE),
                       ColInfo(nameCol, "TEXT", TRUE, "None", FALSE),
                       ColInfo(upload_dateCol, "TEXT", TRUE, "None", FALSE),
                       ColInfo(hashCol, "TEXT", FALSE, "None", FALSE) >>,
           autoinc |-> TRUE,
           unique |-> {hashCol},
           rows |-> {}]]]

Max(S) == CHOOSE m \in S : \A x \in S : x <= m

\* The value a column takes in an INSERT that does not name it.
DefaultValue(c) == IF c.dflt = "0" THEN 0 ELSE None

\* SQLite's choice of the rowid for INSERT into a table whose INTEGER PRIMARY
\* KEY is not given: one more than the largest rowid in the table and, with
\* AUTOINCREMENT, than the largest ever recorded in sqlite_sequence.
NextRowid(db, tn) ==
  LET t == db.tables[tn]
      inTable == IF t.rows = {} THEN 0 ELSE Max({r[idCol] : r \in t.rows})
      everUsed == IF t.autoinc /\ tn \in DOMAIN db.sqlite_sequence
                  THEN db.sqlite_sequence[tn] ELSE 0
  IN  (IF inTable > everUsed THEN inTable ELSE everUsed) + 1

\* A row violates UNIQUE or PRIMARY KEY against another row (NULLs are
\* distinct from each other).  NOT NULL cannot fail: every INSERT and UPDATE
\* of the program binds a str to each NOT NULL column.
Violates(t, row, others) ==
  \E o \in others : \E i \in 1..Len(t.cols) :
     /\ t.cols[i].pk \/ t.cols[i].name \in t.unique
     /\ row[t.cols[i].name] # None
     /\ row[t.cols[i].name] = o[t.cols[i].name]

\* INSERT INTO tn (DOMAIN given) VALUES (given): the statement raises
\* IntegrityError (ok = FALSE) or adds the row and reports its rowid.
Insert(db, tn, given) ==
  LET t == db.tables[tn]
      rowid == NextRowid(db, tn)
      row == [c \in ColNames(t) |->
                IF c \in DOMAIN given THEN given[c]
                ELSE IF c = idCol THEN rowid
                ELSE DefaultValue(CHOOSE ci \in {t.cols[i] : i \in 1..Len(t.cols)} : ci.name = c)]
  IN  IF Violates(t, row, t.rows) THEN [ok |-> FALSE, db |-> db, rowid |-> 0]
      ELSE [ok |-> TRUE,
            rowid |-> rowid,
            db |-> [tables |-> [db.tables EXCEPT ![tn].rows = @ \cup {row}],
                    sqlite_sequence |->
                      IF t.autoinc
                      THEN [n \in DOMAIN db.sqlite_sequence \cup {tn} |-> IF n = tn THEN rowid ELSE db.sqlite_sequence[n]]
                      ELSE db.sqlite_sequence]]

\* UPDATE tn SET col = val WHERE id = ?
Update(db, tn, col, val, id) ==
  [db EXCEPT !.tables[tn].rows = {IF r[idCol] = id THEN [r EXCEPT ![col] = val] ELSE r : r \in @}]

\* DELETE FROM tn WHERE id = ?
Delete(db, tn, id) ==
  [db EXCEPT !.tables[tn].rows = {r \in @ : r[idCol] # id}]

\* Variants of the duplicate lookup: one that skips the records whose paths
\* are still empty, one that finds nothing.
SelectByHashCompleted(db, h) ==
  {r \in db.tables[hdri].rows : h # None /\ r[hashCol] = h /\ r[file_pathCol] # <<>>}
SelectByHashNothing(db, h) == {}

\* SELECT id FROM hdri WHERE hash = ?  (= is never true of NULL)
SelectByHash(db, h) == {r \in db.tables[hdri].rows : h # None /\ r[hashCol] = h}

\* -------------------------------------------------------------- tag columns
tag_ == "tag_"

\* PRAGMA table_info(table)
table_info(db, tn) == db.tables[tn].cols

get_tag_columns(db) ==
  LET cols == table_info(db, hdri)
  IN  {cols[i].name : i \in {j \in 1..Len(cols) : Head(cols[j].name) = tag_}}

safe_tag_column(tag_name) == <<tag_>> \o replace(strip(tag_name), " ", "_")

\* The characters SQLite accepts in an unquoted identifier.
IdentChars == {"a", "b", "c", "_", tag_}

\* Variants of ADD COLUMN: one without DEFAULT 0 (existing rows read NULL),
\* one that accepts a column that exists (ADD COLUMN IF NOT EXISTS).
AddColumnNoDefault(db, tn, col) ==
  LET t == db.tables[tn]
  IN  IF (\E i \in 1..Len(col) : col[i] \notin IdentChars) \/ col \in ColNames(t)
      THEN [ok |-> FALSE, db |-> db]
      ELSE [ok |-> TRUE,
            db |-> [db EXCEPT !.tables[tn] =
                      [@ EXCEPT !.cols = Append(@, ColInfo(col, "BOOLEAN", FALSE, "None", FALSE)),
                                !.rows = {[c \in DOMAIN r \cup {col} |-> IF c = col THEN None ELSE r[c]] : r \in @}]]]
AddColumnIfNotExists(db, tn, col) ==
  LET t == db.tables[tn]
  IN  IF \E i \in 1..Len(col) : col[i] \notin IdentChars THEN [ok |-> FALSE, db |-> db]
      ELSE IF col \in ColNames(t) THEN [ok |-> TRUE, db |-> db]
      ELSE [ok |-> TRUE,
            db |-> [db EXCEPT !.tables[tn] =
                      [@ EXCEPT !.cols = Append(@, ColInfo(col, "BOOLEAN", FALSE, "0", FALSE)),
                                !.rows = {[c \in DOMAIN r \cup {col} |-> IF c = col THEN 0 ELSE r[c]] : r \in @}]]]

\* ALTER TABLE hdri ADD COLUMN col BOOLEAN DEFAULT 0: raises OperationalError
\* (ok = FALSE) when the statement does not parse or the column exists, else
\* appends the column; every existing row reads the default in it.
AddColumn(db, tn, col) ==
  LET t == db.tables[tn]
  IN  IF (\E i \in 1..Len(col) : col[i] \notin IdentChars) \/ col \in ColNames(t)
      THEN [ok |-> FALSE, db |-> db]
      ELSE [ok |-> TRUE,
            db |-> [db EXCEPT !.tables[tn] =
                      [@ EXCEPT !.cols = Append(@, ColInfo(col, "BOOLEAN", FALSE, "0", FALSE)),
                                !.rows = {[c \in DOMAIN r \cup {col} |-> IF c = col THEN 0 ELSE r[c]] : r \in @}]]]

\* CREATE TABLE tn (col_defs): the column definitions carry name, type,
\* NOT NULL, DEFAULT and PRIMARY KEY and nothing else, so the new table
\* has neither AUTOINCREMENT nor a UNIQUE column.  Raises when tn exists.
CreateTable(db, tn, col_defs) ==
  IF tn \in DOMAIN db.tables THEN [ok |-> FALSE, db |-> db]
  ELSE [ok |-> TRUE,
        db |-> [db EXCEPT !.tables = [n \in DOMAIN @ \cup {tn} |->
                  IF n = tn
                  THEN [cols |-> col_defs, autoinc |-> FALSE, unique |-> {}, rows |-> {}]
                  ELSE @[n]]]]

\* A variant of the copy that copies no row.
InsertSelectNothing(db, dst, src, col_names) == [ok |-> TRUE, db |-> db]

\* INSERT INTO dst (col_names) SELECT col_names FROM src: raises when src
\* has no column of one of the names (no such column).
InsertSelect(db, dst, src, col_names) ==
  IF ~(col_names \subseteq ColNames(db.tables[src])) THEN [ok |-> FALSE, db |-> db]
  ELSE LET copied == {[c \in col_names |-> r[c]] : r \in db.tables[src].rows}
       IN  IF \E r \in copied : Violates(db.tables[dst], r, copied \ {r})
           THEN [ok |-> FALSE, db |-> db]
           ELSE [ok |-> TRUE, db |-> [db EXCEPT !.tables[dst].rows = @ \cup copied]]

\* DROP TABLE tn: the table goes, and its row of sqlite_sequence with it.
DropTable(db, tn) ==
  [tables |-> [n \in DOMAIN db.tables \ {tn} |-> db.tables[n]],
   sqlite_sequence |-> [n \in DOMAIN db.sqlite_sequence \ {tn} |-> db.sqlite_sequence[n]]]

\* ALTER TABLE old RENAME TO new
RenameTable(db, old, new) ==
  [tables |-> [n \in (DOMAIN db.tables \ {old}) \cup {new} |->
                 IF n = new THEN db.tables[old] ELSE db.tables[n]],
   sqlite_sequence |-> [n \in (DOMAIN db.sqlite_sequence \ {old}) \cup
                               (IF old \in DOMAIN db.sqlite_sequence THEN {new} ELSE {}) |->
                          IF n = new THEN db.sqlite_sequence[old] ELSE db.sqlite_sequence[n]]]

\* No function of loader.py rolls back or closes its connection when a
\* statement raises.  The transaction the connection had open is never
\* committed: the file keeps the committed state, and SQLite discards the
\* work when the interpreter finalizes the connection.
CloseUncommitted(committed, work) == committed

\* The statements of drop_column_from_table after it has read columns_info,
\* in order; `fault` is the statement (1..4) or the commit (5) at which the
\* store reports an I/O error, a full disk or a lock, 0 for none.  Yields the
\* state of the file afterwards and whether the function returned normally.
rebuild_table(db, table, columns_info, column_to_drop, fault) ==
  LET new_columns == SelectSeq(columns_info, LAMBDA col : col.name # column_to_drop)
      col_defs == [i \in 1..Len(new_columns) |->
                     ColInfo(new_columns[i].name, new_columns[i].type, new_columns[i].notnull,
                             new_columns[i].dflt, new_columns[i].pk)]
      temp_table == table \o <<"_backup">>
      col_names == {new_columns[i].name : i \in 1..Len(new_columns)}
      s1 == IF fault = 1 THEN [ok |-> FALSE, db |-> db] ELSE CreateTable(db, temp_table, col_defs)
      s2 == IF ~s1.ok THEN s1
            ELSE IF fault = 2 THEN [ok |-> FALSE, db |-> s1.db]
            ELSE InsertSelect(s1.db, temp_table, table, col_names)
      s3 == IF ~s2.ok THEN s2
            ELSE IF fault = 3 THEN [ok |-> FALSE, db |-> s2.db]
            ELSE [ok |-> TRUE, db |-> DropTable(s2.db, table)]
      s4 == IF ~s3.ok THEN s3
            ELSE IF fault = 4 THEN [ok |-> FALSE, db |-> s3.db]
            ELSE [ok |-> TRUE, db |-> RenameTable(s3.db, temp_table, table)]
  IN  IF s4.ok /\ fault # 5
      THEN [ok |-> TRUE, db |-> s4.db]
      ELSE [ok |-> FALSE, db |-> CloseUncommitted(db, s4.db)]

\* drop_column_from_table run without another connection writing between
\* its PRAGMA table_info and its transaction.
drop_column_from_table(db, table, column_to_drop, fault) ==
  rebuild_table(db, table, table_info(db, table), column_to_drop, fault)

\* ------------------------------------------------------------ fingerprints
\* A fingerprint is a boolean numpy array: its shape (rows, columns) and its
\* bits in the order flatten() yields them.
Shapes == (1..MaxDim) \X (1..MaxDim)
BitSeqs(n) == [1..n -> {0, 1}]
ImageHash == UNION {[shape : {sh}, hash : BitSeqs(sh[1] * sh[2])] : sh \in Shapes}

\* None where a fingerprint is expected: an object without bits.
NoHash == [shape |-> <<>>, hash |-> <<>>]

\* self.hash.size
size(h) == Len(h.hash)

\* np.count_nonzero(a != b) for flattened arrays of equal length
count_nonzero_ne(a, b) == Cardinality({i \in 1..Len(a) : a[i] # b[i]})

\* ImageHash.__sub__: raises TypeError for None and for a fingerprint with
\* another number of bits, else counts the positions that differ.
__sub__(self, other) ==
  IF other = NoHash THEN [raised |-> "TypeError", value |-> None]
  ELSE IF size(self) # size(other) THEN [raised |-> "TypeError", value |-> None]
  ELSE [raised |-> "", value |-> count_nonzero_ne(self.hash, other.hash)]

\* ------------------------------------------------------------------- state
VARIABLES
  db,        \* the committed content of hdri_database.db
  fs,        \* the image files copied under HDRI_STORAGE_FOLDER, as paths
  batch,     \* add_hdri's loop: how many of the selected files are still to come
  assigned,  \* every id an INSERT of add_hdri has returned so far
  locked,    \* a connection that an exception left open still holds the write lock
  last,      \* the handler (or loop iteration) that ran last, its inputs and outcome
  cmp,       \* two fingerprints and what ImageHash.__sub__ made of them
  sessions,  \* the tag edits of several sessions on one catalog, statement by statement
  before,    \* the catalog those tag edits started from
  listing    \* the sort option and the records load_hdri_images fetched with it

vars == <<db, fs, batch, assigned, locked, last, cmp, sessions, before, listing>>

\* What the handlers of the catalog leave alone.
aux == <<cmp, sessions, before, listing>>

Rows == db.tables[hdri].rows
Ids == {r[idCol] : r \in Rows}
RowOf(d, id) == CHOOSE r \in d.tables[hdri].rows : r[idCol] = id

\* Whether the connection of a handler that raised stays open afterwards,
\* with the write lock it took: it cannot when the handler took no lock
\* (it did not fail in a write transaction, or another connection has the
\* lock), otherwise the interpreter decides.
Lingers(failed_in_transaction) ==
  IF failed_in_transaction /\ ~locked THEN BOOLEAN ELSE {FALSE}

\* ------------------------------------------------------------------ ingest
compute_image_hash(f) == f.hash

ext == <<".hdr">>
basename(f) == f.name \o ext
folder_name(hdri_id, hdri_name) == <<hdri_id, hdri_name>>
preview_jpg == <<"preview.jpg">>
dirname(path) == IF path = <<>> THEN <<>> ELSE path[1]
rmtree(files, folder) == {p \in files : p[1] # folder}

Faults == {"none", "makedirs", "copy", "preview"}

\* A variant of the test of image_hash that lets every file through.
UnhashableM(image_hash) == FALSE

\* if image_hash is None: continue
Unhashable(image_hash) == image_hash = None

\* One iteration of the loop of add_hdri over file_paths, for file f read at
\* clock reading current_date; `fault` is the step of the materialization
\* that fails.  os.makedirs and shutil.copy raise; generate_preview catches
\* its own exceptions, so the row is completed with the path of a preview
\* that may not exist.  res: "skipped" (no hash), "duplicate", "added",
\* "raised" (an exception left add_hdri: the rest of the batch is not
\* processed).  busy: the database is locked, the SELECT reads and the INSERT
\* raises.
add_hdri_file(d, files, f, current_date, fault, busy) ==
  LET image_hash == compute_image_hash(f)
      result == SelectByHash(d, image_hash)
      hdri_name == f.name
      ins == IF busy THEN [ok |-> FALSE, db |-> d, rowid |-> 0]
             ELSE Insert(d, hdri, [c \in {file_pathCol, preview_pathCol, nameCol, upload_dateCol, hashCol} |->
                                CASE c = file_pathCol -> <<>>
                                  [] c = preview_pathCol -> <<>>
                                  [] c = nameCol -> hdri_name
                                  [] c = upload_dateCol -> current_date
                                  [] c = hashCol -> image_hash])
      hdri_id == ins.rowid
      hdri_folder == folder_name(hdri_id, hdri_name)
      new_file_path == <<hdri_folder, basename(f)>>
      preview_path == <<hdri_folder, preview_jpg>>
      copied == files \cup {new_file_path}
  IN  IF Unhashable(image_hash)
      THEN [res |-> "skipped", db |-> d, fs |-> files, id |-> 0, conflict |-> 0]
      ELSE IF result # {}
      THEN [res |-> "duplicate", db |-> d, fs |-> files, id |-> 0,
            conflict |-> (CHOOSE r \in result : TRUE)[idCol]]
      ELSE IF ~ins.ok
      THEN [res |-> "raised", db |-> d, fs |-> files, id |-> 0, conflict |-> 0]
      ELSE IF fault \in {"makedirs", "copy"}
      THEN [res |-> "raised", db |-> ins.db, fs |-> files, id |-> hdri_id, conflict |-> 0]
      ELSE [res |-> "added",
            db |-> Update(Update(ins.db, hdri, file_pathCol, new_file_path, hdri_id),
                          hdri, preview_pathCol, preview_path, hdri_id),
            fs |-> copied, id |-> hdri_id, conflict |-> 0]

\* What `last` keeps of a handler: its name and outcome and, where a handler
\* has them, the column it was about (arg), the fingerprint of the file
\* (hash), the id of the record it inserted or updated (id), the ids inserted
\* so far by the same add_hdri call (added), the id the duplicate check found
\* (conflict), the ids of the thumbnails shown (records).
Outcome(op, res, arg) ==
  [op |-> op, res |-> res, arg |-> arg, hash |-> None, id |-> 0, added |-> {},
   conflict |-> 0, records |-> {}]

\* The iteration for file f, with `left` files to come after it.
IngestFile(f, current_date, fault, left) ==
  \E o \in {add_hdri_file(db, fs, f, current_date, fault, locked)} :
      /\ o.id <= MaxId
      /\ db' = o.db
      /\ fs' = o.fs
      /\ assigned' = IF o.id = 0 THEN assigned ELSE assigned \cup {o.id}
      /\ batch' = IF o.res = "raised" THEN 0 ELSE left
      /\ UNCHANGED <<locked, aux>>
      /\ last' = [Outcome("add_hdri", o.res, <<>>) EXCEPT
                    !.hash = compute_image_hash(f),
                    !.id = o.id,
                    !.conflict = o.conflict,
                    !.added = (IF batch = 0 THEN {} ELSE last.added) \cup
                              (IF o.id = 0 THEN {} ELSE {o.id})]

\* The user picks 1..MaxBatch files; the loop starts with the first.
add_hdri ==
  /\ batch = 0
  /\ \E n \in 1..MaxBatch, f \in Files, current_date \in Dates, fault \in Faults :
       IngestFile(f, current_date, fault, n - 1)

\* The loop goes on with the next file; no other handler runs in between.
add_hdri_next ==
  /\ batch > 0
  /\ \E f \in Files, current_date \in Dates, fault \in Faults :
       IngestFile(f, current_date, fault, batch - 1)

\* ------------------------------------------------------------------ delete
\* delete_hdri(hdri_id, hdri_path) after the user's Yes.  fault 1: the
\* folder cannot be removed, fault 2: the DELETE (or its commit) fails in the
\* store; the DELETE also fails when the database is locked.  The folder is
\* removed before the DELETE is tried, and the except branch leaves the row
\* in place.  lingers: the connection of a failed DELETE stays open.
DeleteHdri(hdri_id, fault, lingers) ==
  LET hdri_path == RowOf(db, hdri_id)[file_pathCol]
      folder_to_delete == dirname(hdri_path)
      exists == \E p \in fs : p[1] = folder_to_delete
      rmtree_raised == exists /\ fault = 1
      delete_raised == ~rmtree_raised /\ (locked \/ fault = 2)
  IN  /\ lingers => (delete_raised /\ ~locked)
      /\ fs' = IF exists /\ ~rmtree_raised THEN rmtree(fs, folder_to_delete) ELSE fs
      /\ db' = IF rmtree_raised \/ delete_raised THEN db ELSE Delete(db, hdri, hdri_id)
      /\ locked' = (locked \/ lingers)
      /\ last' = Outcome("delete_hdri",
                         IF rmtree_raised \/ delete_raised THEN "failed" ELSE "deleted", <<>>)
      /\ UNCHANGED <<batch, assigned, aux>>

delete_hdri ==
  /\ batch = 0
  /\ \E hdri_id \in Ids, fault \in 0..2 :
       \E lingers \in Lingers(fault = 2) :
       DeleteHdri(hdri_id, fault, lingers)

\* -------------------------------------------------------- HDRIInfoDialog
\* add_new_tag of the dialog opened on record hdri_id, with `text` typed into
\* new_tag_edit; fault 1: the ALTER TABLE (or its commit) fails in the store,
\* as it does when the database is locked (busy); fault 2: the UPDATE (or its
\* commit) fails.  res: "empty", "not_added" (the except branch), "raised"
\* (the UPDATE's exception left the handler), "added".
add_new_tag_db(d, hdri_id, text, fault, busy) ==
  LET new_tag == strip(text)
      col_name == safe_tag_column(new_tag)
      alter == IF busy \/ fault = 1 THEN [ok |-> FALSE, db |-> d]
               ELSE AddColumn(d, hdri, col_name)
      updated == Update(alter.db, hdri, col_name, 1, hdri_id)
  IN  IF new_tag = <<>> THEN [res |-> "empty", db |-> d, col |-> <<>>]
      ELSE IF ~alter.ok THEN [res |-> "not_added", db |-> d, col |-> col_name]
      ELSE IF fault = 2
      THEN [res |-> "raised", db |-> CloseUncommitted(alter.db, updated), col |-> col_name]
      ELSE [res |-> "added", db |-> updated, col |-> col_name]

\* lingers: the connection that the UPDATE's exception left open stays open.
AddNewTag(hdri_id, text, fault, lingers) ==
  \E o \in {add_new_tag_db(db, hdri_id, text, fault, locked)} :
      /\ lingers => o.res = "raised"
      /\ db' = o.db
      /\ locked' = (locked \/ lingers)
      /\ last' = [Outcome("add_new_tag", o.res, o.col) EXCEPT
                    !.id = IF o.res = "added" THEN hdri_id ELSE 0]
      /\ UNCHANGED <<fs, batch, assigned, aux>>

add_new_tag ==
  /\ batch = 0
  /\ \E hdri_id \in Ids, text \in TagLabels, fault \in 0..2 :
       \E lingers \in Lingers(fault = 2) :
       AddNewTag(hdri_id, text, fault, lingers)

\* delete_tag(col_name) for a tag the dialog lists; a failure inside
\* drop_column_from_table is caught and printed.  When the database is locked
\* (busy) the first statement that writes, the CREATE TABLE, fails.
delete_tag_db(d, col_name, fault, busy) ==
  drop_column_from_table(d, hdri, col_name, IF busy THEN 1 ELSE fault)

\* lingers: the connection of a drop_column_from_table that failed after its
\* CREATE TABLE stays open, with the write lock its transaction holds.
DeleteTag(col_name, fault, lingers) ==
  \E o \in {delete_tag_db(db, col_name, fault, locked)} :
      /\ lingers => (~o.ok /\ ~locked /\ fault > 1)
      /\ db' = o.db
      /\ locked' = (locked \/ lingers)
      /\ last' = Outcome("delete_tag", IF o.ok THEN "deleted" ELSE "failed", col_name)
      /\ UNCHANGED <<fs, batch, assigned, aux>>

delete_tag ==
  /\ batch = 0
  /\ Ids # {}
  /\ \E col_name \in get_tag_columns(db), fault \in 0..5 :
       \E lingers \in Lingers(fault > 1) :
       DeleteTag(col_name, fault, lingers)

RECURSIVE UpdateEach(_, _, _, _)
UpdateEach(d, cols, checked, id) ==
  IF cols = {} THEN d
  ELSE LET col == CHOOSE c \in cols : TRUE
       IN  UpdateEach(Update(d, hdri, col, IF col \in checked THEN 1 ELSE 0, id),
                      cols \ {col}, checked, id)

\* accept: the name and every tag checkbox of the dialog are written in one
\* transaction.  fault 1: a statement after the UPDATE of name fails,
\* fault 2: the commit fails; when the database is locked (busy) the UPDATE
\* of name fails.
accept_db(d, hdri_id, new_name, checked, fault, busy) ==
  LET renamed == Update(d, hdri, nameCol, new_name, hdri_id)
      tagged == UpdateEach(renamed, get_tag_columns(d), checked, hdri_id)
  IN  IF busy THEN [ok |-> FALSE, db |-> d]
      ELSE CASE fault = 0 -> [ok |-> TRUE, db |-> tagged]
             [] fault = 1 -> [ok |-> FALSE, db |-> CloseUncommitted(d, renamed)]
             [] fault = 2 -> [ok |-> FALSE, db |-> CloseUncommitted(d, tagged)]

\* lingers: the connection that the exception left open stays open.
Accept(hdri_id, new_name, checked, fault, lingers) ==
  \E o \in {accept_db(db, hdri_id, new_name, checked, fault, locked)} :
      /\ lingers => (~o.ok /\ ~locked)
      /\ db' = o.db
      /\ locked' = (locked \/ lingers)
      /\ last' = Outcome("accept", IF o.ok THEN "accepted" ELSE "raised", <<>>)
      /\ UNCHANGED <<fs, batch, assigned, aux>>

accept ==
  /\ batch = 0
  /\ \E hdri_id \in Ids, new_name \in NewNames, checked \in SUBSET get_tag_columns(db),
        fault \in 0..2 :
       \E lingers \in Lingers(fault # 0) :
       Accept(hdri_id, new_name, checked, fault, lingers)

\* ------------------------------------------------------------------- query
lower(c) == IF c = "A" THEN "a" ELSE c

\* SQLite's LIKE: % matches any run of characters, _ any one character, any
\* other character itself without regard to ASCII case.
RECURSIVE Like(_, _)
Like(s, pattern) ==
  IF pattern = <<>> THEN s = <<>>
  ELSE IF Head(pattern) = "%"
       THEN \E k \in 0..Len(s) : Like(SubSeq(s, k + 1, Len(s)), Tail(pattern))
       ELSE /\ s # <<>>
            /\ Head(pattern) = "_" \/ lower(Head(pattern)) = lower(Head(s))
            /\ Like(Tail(s), Tail(pattern))

\* The rows the query of load_hdri_images selects: name LIKE %search_text%
\* when there is a search text, AND col = 1 for every checked filter box.
load_hdri_images(d, search_text, checked) ==
  {r \in d.tables[hdri].rows :
     /\ search_text # <<>> => Like(r[nameCol], <<"%">> \o search_text \o <<"%">>)
     /\ \A col \in checked : r[col] = 1}

\* search_hdri, run by the search bar, the filter boxes and the sort box;
\* records: the ids of the thumbnails the window shows afterwards.
SearchHdri(search_text, checked) ==
  /\ last' = [Outcome("search_hdri", "shown", <<>>) EXCEPT
                !.records = {r[idCol] : r \in load_hdri_images(db, search_text, checked)}]
  /\ UNCHANGED <<db, fs, batch, assigned, locked, aux>>

search_hdri ==
  /\ batch = 0
  /\ \E search_text \in Texts, checked \in SUBSET get_tag_columns(db) :
       SearchHdri(search_text, checked)

\* ----------------------------------------------------------------- sorting
\* The items of sort_combo.
SortOptions ==
  {<<"Alphabetical", " ", "Ascending">>, <<"Alphabetical", " ", "Descending">>,
   <<"Upload Date", " ", "Ascending">>, <<"Upload Date", " ", "Descending">>}

startswith(s, prefix) == s # <<>> /\ s[1] = prefix
contains(s, part) == \E i \in 1..Len(s) : s[i] = part

\* The code point of a character of a name.
ord(c) ==
  CASE c = "A" -> 65 [] c = "_" -> 95 [] c = "a" -> 97 [] c = "b" -> 98 [] c = "c" -> 99

\* a < b as SQLite compares TEXT (column name has the default collation
\* BINARY): by the first character that differs, a prefix before the longer.
RECURSIVE TextLess(_, _)
TextLess(a, b) ==
  IF b = <<>> THEN FALSE
  ELSE IF a = <<>> THEN TRUE
  ELSE IF Head(a) = Head(b) THEN TextLess(Tail(a), Tail(b))
  ELSE ord(Head(a)) < ord(Head(b))

\* r1 < r2 by the column of ORDER BY.
KeyLess(col, r1, r2) ==
  IF col = nameCol THEN TextLess(r1[nameCol], r2[nameCol]) ELSE r1[col] < r2[col]

\* The rows in the order the scan of the table visits them: by rowid.
RECURSIVE Scan(_)
Scan(rows) ==
  IF rows = {} THEN <<>>
  ELSE LET first == CHOOSE r \in rows : \A o \in rows : r[idCol] <= o[idCol]
       IN  <<first>> \o Scan(rows \ {first})

\* r goes before the first row of the sorted sequence that it precedes.
RECURSIVE Place(_, _, _, _)
Place(sorted, r, col, desc) ==
  IF sorted = <<>> THEN <<r>>
  ELSE IF (IF desc THEN KeyLess(col, Head(sorted), r) ELSE KeyLess(col, r, Head(sorted)))
       THEN <<r>> \o sorted
       ELSE <<Head(sorted)>> \o Place(Tail(sorted), r, col, desc)

\* A variant of ORDER BY that takes DESC as the ascending order read backwards.
RECURSIVE order_byBackwards(_, _, _)
order_byBackwards(scanned, col, desc) ==
  IF desc
  THEN LET asc == order_byBackwards(scanned, col, FALSE)
       IN  [i \in 1..Len(asc) |-> asc[Len(asc) + 1 - i]]
  ELSE IF scanned = <<>> THEN <<>>
  ELSE Place(order_byBackwards(SubSeq(scanned, 1, Len(scanned) - 1), col, FALSE),
             scanned[Len(scanned)], col, FALSE)

\* ORDER BY col ASC|DESC as SQLite's sorter does it: the scanned rows are
\* sorted by the key alone, and rows of equal key stay in the order of the
\* scan, in either direction.
RECURSIVE order_by(_, _, _)
order_by(scanned, col, desc) ==
  IF scanned = <<>> THEN <<>>
  ELSE Place(order_by(SubSeq(scanned, 1, Len(scanned) - 1), col, desc),
             scanned[Len(scanned)], col, desc)

\* cursor.fetchall() of load_hdri_images: the selected rows, ordered by name
\* or upload_date as sort_option says.
fetchall(d, search_text, checked, sort_option) ==
  order_by(Scan(load_hdri_images(d, search_text, checked)),
           IF startswith(sort_option, "Alphabetical") THEN nameCol ELSE upload_dateCol,
           contains(sort_option, "Descending"))

\* Nothing has been listed.
NoListing == [done |-> FALSE, sort_option |-> <<>>, search_text |-> <<>>, records |-> <<>>]

\* sort_combo.currentIndexChanged -> search_hdri -> load_hdri_images
SortHdri(sort_option, search_text, checked) ==
  /\ listing' = [done |-> TRUE, sort_option |-> sort_option, search_text |-> search_text,
                 records |-> fetchall(db, search_text, checked, sort_option)]
  /\ UNCHANGED <<db, fs, batch, assigned, locked, last, cmp, sessions, before>>

sort_hdri ==
  /\ batch = 0
  /\ \E sort_option \in SortOptions, search_text \in Texts,
        checked \in SUBSET get_tag_columns(db) :
       SortHdri(sort_option, search_text, checked)

\* ------------------------------------------------------------ finalization
\* The interpreter finalizes the connection that was left open: SQLite rolls
\* its transaction back and the lock is released.  When that happens is up to
\* the interpreter (at once where the connection is reference counted away,
\* at some later collection where it sits in a reference cycle).
gc ==
  /\ locked
  /\ \A s \in DOMAIN sessions : sessions[s].pc # "rebuilding"
  /\ locked' = FALSE
  /\ last' = [Outcome("gc", "", <<>>) EXCEPT !.added = last.added]
  /\ UNCHANGED <<db, fs, batch, assigned, aux>>

\* ------------------------------------------------- comparing fingerprints
\* No comparison is under way.
NoComparison == [self |-> NoHash, other |-> NoHash, done |-> FALSE, raised |-> "", value |-> None]

\* self - other is evaluated.
Subtract ==
  /\ ~cmp.done
  /\ cmp.self # NoHash
  /\ \E o \in {__sub__(cmp.self, cmp.other)} :
       cmp' = [cmp EXCEPT !.done = TRUE, !.raised = o.raised, !.value = o.value]
  /\ UNCHANGED <<db, fs, batch, assigned, locked, last, sessions, before, listing>>

\* ------------------------------------------------- tag edits of two sessions
\* Sessions that share the storage folder edit the tags of one catalog; each
\* runs its handler on a connection of its own, one statement at a time.
\* pc: "start", "read" (drop_column_from_table has columns_info), "rebuilding"
\* (its transaction holds the write lock), "altered" (add_new_tag has
\* committed the ALTER TABLE), "done".
Sessions == 1..MaxSessions
NoSessions == [s \in {} |-> 0]

Session(op, arg, hdri_id) ==
  [op |-> op, arg |-> arg, hdri_id |-> hdri_id, pc |-> "start", columns_info |-> <<>>, res |-> ""]

\* The edits the dialog of record hdri_id offers on catalog d: delete_tag of
\* a tag it lists, add_new_tag of a label.
Edits(d, hdri_id) ==
  {Session("delete_tag", col, hdri_id) : col \in get_tag_columns(d)} \cup
  {Session("add_new_tag", text, hdri_id) : text \in {<<"a", " ", "b">>, <<" ", "c", " ">>}}

Step(s, new) == sessions' = [sessions EXCEPT ![s] = new]
Done(ses, res) == [ses EXCEPT !.pc = "done", !.res = res]

\* cursor.execute(f"PRAGMA table_info({table})"), outside any transaction
read_table_info(s) ==
  /\ sessions[s].op = "delete_tag" /\ sessions[s].pc = "start"
  /\ Step(s, [sessions[s] EXCEPT !.pc = "read", !.columns_info = table_info(db, hdri)])
  /\ UNCHANGED <<db, fs, batch, assigned, locked, last, cmp, before, listing>>

\* BEGIN TRANSACTION; CREATE TABLE hdri_backup: takes the write lock, or
\* raises when another connection holds it.
begin_rebuild(s) ==
  /\ sessions[s].pc = "read"
  /\ IF locked
     THEN Step(s, Done(sessions[s], "failed")) /\ UNCHANGED locked
     ELSE Step(s, [sessions[s] EXCEPT !.pc = "rebuilding"]) /\ locked' = TRUE
  /\ UNCHANGED <<db, fs, batch, assigned, last, cmp, before, listing>>

\* The statements from CREATE TABLE to conn.commit(), with the columns_info
\* read before; lingers: the connection of a failed rebuild stays open.
commit_rebuild(s, lingers) ==
  /\ sessions[s].pc = "rebuilding"
  /\ \E o \in {rebuild_table(db, hdri, sessions[s].columns_info, sessions[s].arg, 0)} :
       /\ lingers => ~o.ok
       /\ db' = o.db
       /\ locked' = lingers
       /\ Step(s, Done(sessions[s], IF o.ok THEN "deleted" ELSE "failed"))
  /\ UNCHANGED <<fs, batch, assigned, last, cmp, before, listing>>

\* ALTER TABLE hdri ADD COLUMN ... and conn.commit(), in the try of add_new_tag
alter_table(s) ==
  /\ sessions[s].op = "add_new_tag" /\ sessions[s].pc = "start"
  /\ \E alter \in {IF locked THEN [ok |-> FALSE, db |-> db]
                    ELSE AddColumn(db, hdri, safe_tag_column(strip(sessions[s].arg)))} :
       /\ db' = alter.db
       /\ Step(s, IF alter.ok THEN [sessions[s] EXCEPT !.pc = "altered"]
                  ELSE Done(sessions[s], "not_added"))
  /\ UNCHANGED <<fs, batch, assigned, locked, last, cmp, before, listing>>

\* UPDATE hdri SET col = 1 WHERE id = ? and conn.commit(): raises when the
\* database is locked or the column is gone.
update_tag(s) ==
  /\ sessions[s].pc = "altered"
  /\ LET col_name == safe_tag_column(strip(sessions[s].arg))
         raised == locked \/ col_name \notin ColNames(db.tables[hdri])
     IN  /\ db' = IF raised THEN db ELSE Update(db, hdri, col_name, 1, sessions[s].hdri_id)
         /\ Step(s, Done(sessions[s], IF raised THEN "raised" ELSE "added"))
  /\ UNCHANGED <<fs, batch, assigned, locked, last, cmp, before, listing>>

\* ----------------------------------------------------------- specification
Init ==
  /\ db = initialize_database(EmptyDb)
  /\ fs = {}
  /\ batch = 0
  /\ assigned = {}
  /\ locked = FALSE
  /\ last = Outcome("init", "", <<>>)
  /\ cmp = NoComparison
  /\ sessions = NoSessions
  /\ before = EmptyDb
  /\ listing = NoListing

Next ==
  \/ add_hdri
  \/ add_hdri_next
  \/ delete_hdri
  \/ add_new_tag
  \/ delete_tag
  \/ accept
  \/ search_hdri
  \/ gc

Spec == Init /\ [][Next]_vars

\* The fingerprints of two images are compared; the catalog is not involved.
InitDistance ==
  /\ db = initialize_database(EmptyDb)
  /\ fs = {}
  /\ batch = 0
  /\ assigned = {}
  /\ locked = FALSE
  /\ last = Outcome("init", "", <<>>)
  /\ \E self \in ImageHash, other \in ImageHash \cup {NoHash} :
       cmp = [NoComparison EXCEPT !.self = self, !.other = other]
  /\ sessions = NoSessions
  /\ before = EmptyDb
  /\ listing = NoListing

NextDistance == Subtract

SpecDistance == InitDistance /\ [][NextDistance]_vars

\* The catalogs the tag edits start from: one record ingested and tags
\* added through it.
RECURSIVE AddTags(_, _, _)
AddTags(d, hdri_id, labels) ==
  IF labels = <<>> THEN d
  ELSE AddTags(add_new_tag_db(d, hdri_id, Head(labels), 0, FALSE).db, hdri_id, Tail(labels))

TagOrders ==
  {<<>>, << <<"a", " ", "b">> >>, << <<" ", "c", " ">> >>,
   << <<"a", " ", "b">>, <<" ", "c", " ">> >>, << <<" ", "c", " ">>, <<"a", " ", "b">> >>}

InitConcurrent ==
  /\ batch = 0
  /\ listing = NoListing
  /\ locked = FALSE
  /\ last = Outcome("init", "", <<>>)
  /\ cmp = NoComparison
  /\ \E f \in {x \in Files : ~Unhashable(compute_image_hash(x))}, current_date \in Dates,
        labels \in TagOrders :
       \E o \in {add_hdri_file(initialize_database(EmptyDb), {}, f, current_date, "none", FALSE)} :
         \E catalog \in {AddTags(o.db, o.id, labels)} :
           /\ db = catalog
           /\ fs = o.fs
           /\ assigned = {o.id}
           /\ before = catalog
           /\ sessions \in [Sessions -> Edits(catalog, o.id)]

NextConcurrent ==
  \/ \E s \in Sessions : read_table_info(s)
  \/ \E s \in Sessions : begin_rebuild(s)
  \/ \E s \in Sessions, lingers \in BOOLEAN : commit_rebuild(s, lingers)
  \/ \E s \in Sessions : alter_table(s)
  \/ \E s \in Sessions : update_tag(s)
  \/ gc

SpecConcurrent == InitConcurrent /\ [][NextConcurrent]_vars

\* The catalogs whose listing is sorted: up to MaxListed records ingested one
\* after the other, each with a name, an upload date and a fingerprint of its
\* own, and possibly one of them deleted again.
SortNames == {<<"a">>, <<"b">>, <<"c">>}
SortDates == 1..MaxSortDate

RECURSIVE Ingested(_, _)
Ingested(d, entries) ==
  IF entries = <<>> THEN d
  ELSE LET sofar == Ingested(d, SubSeq(entries, 1, Len(entries) - 1))
           e == entries[Len(entries)]
       IN  Insert(sofar, hdri, [c \in {file_pathCol, preview_pathCol, nameCol, upload_dateCol, hashCol} |->
                                  CASE c = file_pathCol -> <<>>
                                    [] c = preview_pathCol -> <<>>
                                    [] c = nameCol -> e.name
                                    [] c = upload_dateCol -> e.date
                                    [] c = hashCol -> Len(entries)]).db

InitSort ==
  /\ fs = {}
  /\ batch = 0
  /\ locked = FALSE
  /\ last = Outcome("init", "", <<>>)
  /\ cmp = NoComparison
  /\ sessions = NoSessions
  /\ before = EmptyDb
  /\ listing = NoListing
  /\ \E n \in 0..MaxListed :
       \E entries \in [1..n -> [name : SortNames, date : SortDates]], gone \in 0..n :
         /\ db = Delete(Ingested(initialize_database(EmptyDb), entries), hdri, gone)
         /\ assigned = 1..n

NextSort == sort_hdri

SpecSort == InitSort /\ [][NextSort]_vars

\* ------------------------------------------------------------------ claims
RowsOf(d) == d.tables[hdri].rows
Without(r, col) == [c \in DOMAIN r \ {col} |-> r[c]]

\* C1: in every reachable state of the catalog no two stored records have
\* the same non-null hash.
C1_UniqueHash ==
  \A r1, r2 \in Rows : (r1[hashCol] # None /\ r1[hashCol] = r2[hashCol]) => r1 = r2

\* The table has been rebuilt by a remove-tag (its UNIQUE is gone), holds two
\* records, and an ingest has just been turned away as a duplicate.
C1_Witness ==
  /\ hashCol \notin db.tables[hdri].unique
  /\ Cardinality(Rows) = 2
  /\ last.op = "add_hdri" /\ last.res = "duplicate"

\* C2: an iteration of add_hdri for a file whose fingerprint is the hash of a
\* stored record ends as a duplicate and changes neither the catalog (no
\* record created or modified, same row count) nor the copied files.
C2_DuplicateRejected ==
  [][(last'.op = "add_hdri" /\ last'.hash \in {r[hashCol] : r \in Rows})
       => (last'.res = "duplicate" /\ db' = db /\ fs' = fs)]_vars

\* A file was turned away as the duplicate of a record that the same add_hdri
\* call had inserted.
C2_Witness ==
  /\ last.op = "add_hdri" /\ last.res = "duplicate"
  /\ last.conflict \in last.added

\* C3: no ingest is turned away as the duplicate of a record whose paths are
\* still empty, that is, of a record whose materialization failed.
C3_NoOrphanBlocksReingest ==
  (last.op = "add_hdri" /\ last.res = "duplicate")
    => RowOf(db, last.conflict)[file_pathCol] # <<>>

\* C4: every id an INSERT of add_hdri returns is greater than every id
\* returned before.
C4_IdsNeverReused ==
  [][(last'.op = "add_hdri" /\ last'.id # 0) => \A a \in assigned : a < last'.id]_vars

\* C5: a remove-tag that succeeds removes the named column and nothing else:
\* the remaining column definitions, the set of rows and every remaining value
\* of every row are as before.
C5_RemoveTagFrame ==
  [][(last'.op = "delete_tag" /\ last'.res = "deleted")
       => /\ last'.arg \in get_tag_columns(db)
          /\ table_info(db', hdri) = SelectSeq(table_info(db, hdri), LAMBDA c : c.name # last'.arg)
          /\ RowsOf(db') = {Without(r, last'.arg) : r \in Rows}
          /\ {r[idCol] : r \in RowsOf(db')} = Ids
          /\ Cardinality(RowsOf(db')) = Cardinality(Rows)]_vars

\* A tag was removed from a catalog of two records while another tag, set on
\* one of them, stayed.
C5_Witness ==
  /\ last.op = "delete_tag" /\ last.res = "deleted"
  /\ Cardinality(Rows) = 2
  /\ \E c \in get_tag_columns(db) : \E r1, r2 \in Rows : r1[c] = 1 /\ r2[c] = 0

\* C6: a remove-tag that fails at any statement or at the commit leaves the
\* database as it was (the hdri table with all columns and rows, and no
\* replacement table), and the same remove-tag, tried again, succeeds.
C6_RemoveTagFailure ==
  [][(last'.op = "delete_tag" /\ last'.res = "failed" /\ ~locked)
       => /\ db' = db
          /\ DOMAIN db'.tables = {hdri}
          /\ delete_tag_db(db', last'.arg, 0, locked').ok]_vars

\* A remove-tag has failed on a catalog that holds records, and its
\* connection is still open.
C6_Witness ==
  /\ last.op = "delete_tag" /\ last.res = "failed"
  /\ last.arg \in get_tag_columns(db)
  /\ Rows # {}
  /\ locked

\* C7: an add-tag of a new column through a record that succeeds gives every
\* record the column, 1 on that record and 0 on the others, and changes no
\* other value; a record ingested later has 0 in every tag column.
C7_AddTag ==
  [][/\ (last'.op = "add_new_tag" /\ last'.res = "added")
          => /\ last'.arg \notin ColNames(db.tables[hdri])
             /\ last'.arg \in get_tag_columns(db')
             /\ last'.id \in Ids
             /\ \A r \in RowsOf(db') : r[last'.arg] = IF r[idCol] = last'.id THEN 1 ELSE 0
             /\ {Without(r, last'.arg) : r \in RowsOf(db')} = Rows
     /\ (last'.op = "add_hdri" /\ last'.id # 0)
          => \A c \in get_tag_columns(db') : RowOf(db', last'.id)[c] = 0]_vars

\* A tag was added through one of two records.
C7_Witness ==
  /\ last.op = "add_new_tag" /\ last.res = "added"
  /\ \E r1, r2 \in Rows : r1[last.arg] = 1 /\ r2[last.arg] = 0

\* C8: an add-tag whose sanitized column exists changes nothing, whatever
\* label it was typed as.
C8_ExistingTagNoop ==
  [][(last'.op = "add_new_tag" /\ last'.arg \in ColNames(db.tables[hdri]))
       => db' = db]_vars

\* An add-tag was turned away for a column that exists and is 0 on a record.
C8_Witness ==
  /\ last.op = "add_new_tag" /\ last.res = "not_added"
  /\ last.arg \in get_tag_columns(db)
  /\ \E r \in Rows : r[last.arg] = 0

\* s contains sub as a substring.
Contains(s, sub) == \E i \in 1..(Len(s) - Len(sub) + 1) : SubSeq(s, i, i + Len(sub) - 1) = sub

\* C9: a query shows exactly the records whose name contains the search text
\* (when there is one) and that have every selected tag true.
C9_QueryFilter ==
  [][\A search_text \in Texts, checked \in SUBSET get_tag_columns(db) :
       SearchHdri(search_text, checked)
         => last'.records =
              {r[idCol] : r \in {x \in Rows :
                 /\ search_text # <<>> => Contains(x[nameCol], search_text)
                 /\ \A c \in checked : x[c] = 1}}]_vars

\* C10: an iteration of add_hdri for a file without a fingerprint creates no
\* record and copies nothing, the loop goes on with the files that are left,
\* and no record with a null hash is ever stored.
C10_UnhashableSkipped ==
  [][/\ (last'.op = "add_hdri" /\ last'.hash = None)
          => /\ last'.res = "skipped" /\ db' = db /\ fs' = fs
             /\ batch > 0 => batch' = batch - 1
     /\ \A r \in RowsOf(db') : r[hashCol] # None]_vars

\* A file without a fingerprint was skipped with another file of the batch
\* still to come.
C10_Witness ==
  /\ last.op = "add_hdri" /\ last.res = "skipped"
  /\ batch > 0

\* The number of positions at which two bit sequences of equal length differ.
Hamming(a, b) == Cardinality({i \in 1..Len(a) : a[i] # b[i]})

\* C11: the distance of two fingerprints whose dimensions differ, be it
\* with the same number of bits, is an error and no number; for equal
\* dimensions it is the number of differing positions, 0 for a fingerprint
\* against itself and at most the number of bits.
C11_HammingDistance ==
  cmp.done =>
    IF cmp.other = NoHash \/ cmp.self.shape # cmp.other.shape
    THEN cmp.raised # ""
    ELSE /\ cmp.raised = ""
         /\ cmp.value = Hamming(cmp.self.hash, cmp.other.hash)
         /\ cmp.self = cmp.other => cmp.value = 0
         /\ cmp.value \in 0..(cmp.self.shape[1] * cmp.self.shape[2])

\* Two fingerprints of different shape and equal bit count were compared.
C11_Witness ==
  /\ cmp.done
  /\ cmp.other # NoHash
  /\ cmp.self.shape # cmp.other.shape
  /\ size(cmp.self) = size(cmp.other)

\* The catalog after the edits of `order` run one after the other.
RECURSIVE SerialRun(_, _)
SerialRun(d, order) ==
  IF order = <<>> THEN d
  ELSE LET e == Head(order)
       IN  SerialRun(IF e.op = "delete_tag" THEN delete_tag_db(d, e.arg, 0, FALSE).db
                     ELSE add_new_tag_db(d, e.hdri_id, e.arg, 0, FALSE).db,
                     Tail(order))

\* The sequences without repetition of all elements of S.
RECURSIVE Orders(_)
Orders(S) ==
  IF S = {} THEN {<<>>}
  ELSE UNION {{<<x>> \o t : t \in Orders(S \ {x})} : x \in S}

\* The columns of hdri and the rows with their values.
Content(d) == [cols |-> ColNames(d.tables[hdri]), rows |-> RowsOf(d)]

\* C12: at most one rebuild holds its transaction at a time, and when the
\* edits of all sessions have returned and each has reported success, the
\* catalog is what these edits leave when run one after the other in some
\* order: no column one edit added or removed is lost or back through the
\* other.
C12_ConcurrentTagEdits ==
  /\ Cardinality({s \in DOMAIN sessions : sessions[s].pc = "rebuilding"}) <= 1
  /\ (/\ sessions # NoSessions
      /\ \A s \in DOMAIN sessions :
           sessions[s].pc = "done" /\ sessions[s].res \in {"deleted", "added"})
       => \E order \in Orders(DOMAIN sessions) :
            Content(db) = Content(SerialRun(before, [i \in 1..Len(order) |-> sessions[order[i]]]))

\* A remove-tag and an add-tag of two sessions have both reported success,
\* the rebuild having read its columns before the add-tag committed, and the
\* column that was added is not in the catalog.
C12_Witness ==
  /\ sessions # NoSessions
  /\ \E s, t \in DOMAIN sessions :
       /\ sessions[s].op = "delete_tag" /\ sessions[s].res = "deleted"
       /\ sessions[t].op = "add_new_tag" /\ sessions[t].res = "added"
       /\ safe_tag_column(strip(sessions[t].arg)) \notin
             {sessions[s].columns_info[i].name : i \in 1..Len(sessions[s].columns_info)}
       /\ safe_tag_column(strip(sessions[t].arg)) \notin ColNames(db.tables[hdri])

\* C13: a step of add_new_tag that does not report the tag added leaves the
\* catalog as it was, and one that reports it added leaves the new column with
\* the record it was introduced through marked; a step of accept that raised
\* leaves the catalog as it was, and one that was accepted leaves the columns
\* and all other records as they were.
C13_AllOrNothing ==
  [][/\ (last'.op = "add_new_tag" /\ last'.res # "added") => db' = db
     /\ (last'.op = "add_new_tag" /\ last'.res = "added")
          => /\ last'.arg \in ColNames(db'.tables[hdri])
             /\ RowOf(db', last'.id)[last'.arg] = 1
     /\ (last'.op = "accept" /\ last'.res # "accepted") => db' = db
     /\ (last'.op = "accept" /\ last'.res = "accepted")
          => /\ ColNames(db'.tables[hdri]) = ColNames(db.tables[hdri])
             /\ \E hdri_id \in Ids :
                  {r \in RowsOf(db') : r[idCol] # hdri_id} = {r \in RowsOf(db) : r[idCol] # hdri_id}
    ]_vars

\* add_new_tag has raised after its ALTER TABLE was committed: the column is
\* in the catalog and no record has it set.
C13_Witness ==
  /\ last.op = "add_new_tag" /\ last.res = "raised"
  /\ last.arg \in ColNames(db.tables[hdri])
  /\ \A r \in RowsOf(db) : r[last.arg] = 0

\* The names of a sequence of rows, in its order.
NamesOf(rows) == [i \in 1..Len(rows) |-> rows[i][nameCol]]

====
